---- MODULE Spec2Model ----
(***************************************************************************)
(* Key-wrap algorithms of authlib.jose.rfc7518 (RSA1_5 / RSA-OAEP /        *)
(* RSA-OAEP-256, A*KW, A*GCMKW) and the JWK load/dump round trip.          *)
(*                                                                         *)
(* Byte strings are symbolic terms (records tagged by the field t): the    *)
(* cryptographic primitives of the `cryptography` package are modelled by  *)
(* their contract (what they accept, what they return, when they raise),   *)
(* not by their arithmetic.  Every handler of the source is an operator    *)
(* returning [out, trace]: out is what the call returns or raises, trace   *)
(* is the sequence of primitive operations it performed before that.       *)
(***************************************************************************)
EXTENDS Integers, Sequences, FiniteSets, TLC

VARIABLES registry, ctx, sent, prevSent, last, jwk

vars == <<registry, ctx, sent, prevSent, last, jwk>>

----------------------------------------------------------------------------
(* Bounds of the model *)

\* number of distinct values os.urandom may return for one length
NumDraws == 2

----------------------------------------------------------------------------
(* Python values *)

None == [t |-> "None"]

\* a call either returns a value or raises an exception
Return(v) == [t |-> "return", val |-> v]

Raise(exc, msg) == [t |-> "raise", exc |-> exc, msg |-> msg]

\* plain bytes: n bytes, told apart by id
Raw(n, id) == [t |-> "raw", len |-> n, id |-> id]

\* the bytes b with one bit flipped: same length, different value
Flip(b) == [t |-> "flip", of |-> b]

\* the str ''
EmptyStr == [t |-> "str", text |-> [t |-> "empty"]]

\* Python truthiness of a header value: None and '' are falsy
Truthy(v) == v # None /\ v # EmptyStr

\* a mapping with no entry
NoHeaders == [k \in {} |-> None]

\* headers.get(k): None when the mapping has no entry k
Get(headers, k) == IF k \in DOMAIN headers THEN headers[k] ELSE None

\* authlib.common.encoding
urlsafe_b64encode(b) == [t |-> "b64", of |-> b]

urlsafe_b64decode(x) == x.of

to_native(x) == [t |-> "str", text |-> x]

to_bytes(s) == s.text

----------------------------------------------------------------------------
(* Keys *)

\* an octet key holding n raw bytes
OctKey(n) == [kty |-> "oct", k |-> Raw(n, 1)]

\* an RSA key pair with a modulus of the given number of bits
RSAKey(bits) == [kty |-> "RSA", key_size |-> bits, id |-> bits]

\* key.get_op_key(operation): the raw bytes of an octet key, the public key
\* of an RSA key for wrapKey, its private key for unwrapKey
get_op_key(key, operation) ==
    IF key.kty = "oct" THEN key.k
    ELSE [t |-> IF operation = "wrapKey" THEN "rsa_public" ELSE "rsa_private",
          key_size |-> key.key_size, id |-> key.id]

\* len(key) of a bytes value
len(b) == b.len

----------------------------------------------------------------------------
(* Primitives of the cryptography package *)

\* public_key.encrypt(plaintext, padding)
rsa_encrypt(op_key, pt, pad) ==
    [t |-> "rsa_ct", id |-> op_key.id, pad |-> pad, pt |-> pt]

\* private_key.decrypt(ciphertext, padding): ValueError unless the ciphertext
\* was made for this key pair under this padding
rsa_decrypt(op_key, ek, pad) ==
    IF ek.t = "rsa_ct" /\ ek.id = op_key.id /\ ek.pad = pad
    THEN Return(ek.pt)
    ELSE Raise("ValueError", "Decryption failed")

\* keywrap.aes_key_wrap (RFC 3394): defined on two or more 64-bit blocks
aes_key_wrap(wrapping_key, key_to_wrap) ==
    IF len(key_to_wrap) < 16
    THEN Raise("ValueError", "The key to wrap must be at least 16 bytes")
    ELSE IF len(key_to_wrap) % 8 # 0
    THEN Raise("ValueError", "The key to wrap must be a multiple of 8 bytes")
    ELSE Return([t |-> "kw", key |-> wrapping_key, pt |-> key_to_wrap])

\* keywrap.aes_key_unwrap: InvalidUnwrap unless the integrity value
\* recovered under wrapping_key is the RFC 3394 initial value
aes_key_unwrap(wrapping_key, wrapped_key) ==
    IF wrapped_key.t = "kw" /\ wrapped_key.key = wrapping_key
    THEN Return(wrapped_key.pt)
    ELSE Raise("InvalidUnwrap", "")

\* Cipher(AES(key), GCM(iv)).encryptor(): update(pt) + finalize()
gcm_ciphertext(key, iv, pt) == [t |-> "gcm_ct", key |-> key, iv |-> iv, pt |-> pt]

\* ... and its tag attribute
gcm_tag(key, iv, pt) == [t |-> "gcm_tag", key |-> key, iv |-> iv, pt |-> pt]

\* Cipher(AES(key), GCM(iv, tag)).decryptor().update(ct): counter-mode
\* decryption, not yet authenticated
gcm_update(key, iv, ct) ==
    IF ct.t = "gcm_ct" /\ ct.key = key /\ ct.iv = iv
    THEN ct.pt
    ELSE [t |-> "unauthenticated", of |-> ct]

\* ... .finalize(): TRUE when the tag verifies, otherwise InvalidTag is raised
gcm_finalize(key, iv, tag, ct) ==
    /\ ct.t = "gcm_ct"
    /\ ct.key = key
    /\ ct.iv = iv
    /\ tag = gcm_tag(key, iv, ct.pt)

\* the values os.urandom(n) may return
os_urandom(n) == {Raw(n, i) : i \in 1..NumDraws}

----------------------------------------------------------------------------
(* class RSAAlgorithm *)

\* RSAAlgorithm.key_size
RSA_key_size == 2048

RSAAlgorithm(name, description, pad_fn) ==
    [cls |-> "RSAAlgorithm", name |-> name, description |-> description,
     padding |-> pad_fn, key_size |-> RSA_key_size]

\* RSAAlgorithm_wrap with <= for <: a key of exactly key_size bits is rejected
RSAAlgorithm_wrap_le(self, cek, headers, key) ==
    LET op_key == get_op_key(key, "wrapKey") IN
    IF op_key.key_size <= self.key_size
    THEN [out |-> Raise("ValueError", "A key of size 2048 bits or larger MUST be used"),
          trace |-> <<>>]
    ELSE [out |-> Return(rsa_encrypt(op_key, cek, self.padding)),
          trace |-> <<"encrypt">>]

RSAAlgorithm_wrap(self, cek, headers, key) ==
    LET op_key == get_op_key(key, "wrapKey") IN
    IF op_key.key_size < self.key_size
    THEN [out |-> Raise("ValueError", "A key of size 2048 bits or larger MUST be used"),
          trace |-> <<>>]
    ELSE [out |-> Return(rsa_encrypt(op_key, cek, self.padding)),
          trace |-> <<"encrypt">>]

RSAAlgorithm_unwrap(self, ek, headers, key) ==
    LET op_key == get_op_key(key, "unwrapKey") IN
    [out |-> rsa_decrypt(op_key, ek, self.padding), trace |-> <<"decrypt">>]

----------------------------------------------------------------------------
(* class AESAlgorithm *)

AESAlgorithm(key_size) ==
    [cls |-> "AESAlgorithm", name |-> "A" \o ToString(key_size) \o "KW",
     description |-> "AES Key Wrap using " \o ToString(key_size) \o "-bit key",
     key_size |-> key_size]

\* check_key with < for !=: a key longer than key_size passes
check_key_min(self, key) ==
    IF len(key) * 8 < self.key_size
    THEN Raise("ValueError",
               "A key of size " \o ToString(self.key_size) \o " bits is required.")
    ELSE None

\* _check_key of AESAlgorithm and of AESGCMAlgorithm (the two bodies are the
\* same): the ValueError it raises, or None when it returns
check_key(self, key) ==
    IF len(key) * 8 # self.key_size
    THEN Raise("ValueError",
               "A key of size " \o ToString(self.key_size) \o " bits is required.")
    ELSE None

\* AESAlgorithm_wrap returning a mapping, as AESGCMAlgorithm.wrap does
AESAlgorithm_wrap_dict(self, cek, headers, key) ==
    LET op_key == get_op_key(key, "wrapKey")
        chk == check_key(self, op_key)
        r == aes_key_wrap(op_key, cek)
    IN  IF chk # None THEN [out |-> chk, trace |-> <<>>]
        ELSE IF r.t = "raise" THEN [out |-> r, trace |-> <<"aes_key_wrap">>]
        ELSE [out |-> Return([t |-> "dict", ek |-> r.val, header |-> NoHeaders]),
              trace |-> <<"aes_key_wrap">>]

AESAlgorithm_wrap(self, cek, headers, key) ==
    LET op_key == get_op_key(key, "wrapKey")
        chk == check_key(self, op_key)
    IN  IF chk # None THEN [out |-> chk, trace |-> <<>>]
        ELSE [out |-> aes_key_wrap(op_key, cek), trace |-> <<"aes_key_wrap">>]

AESAlgorithm_unwrap(self, ek, headers, key) ==
    LET op_key == get_op_key(key, "unwrapKey")
        chk == check_key(self, op_key)
    IN  IF chk # None THEN [out |-> chk, trace |-> <<>>]
        ELSE [out |-> aes_key_unwrap(op_key, ek), trace |-> <<"aes_key_unwrap">>]

----------------------------------------------------------------------------
(* class AESGCMAlgorithm *)

EXTRA_HEADERS == {"iv", "tag"}

\* AESGCMAlgorithm with the name format of AESAlgorithm
AESGCMAlgorithm_kw_name(key_size) ==
    [cls |-> "AESGCMAlgorithm", name |-> "A" \o ToString(key_size) \o "KW",
     description |-> "Key wrapping with AES GCM using " \o ToString(key_size) \o "-bit key",
     key_size |-> key_size]

AESGCMAlgorithm(key_size) ==
    [cls |-> "AESGCMAlgorithm", name |-> "A" \o ToString(key_size) \o "GCMKW",
     description |-> "Key wrapping with AES GCM using " \o ToString(key_size) \o "-bit key",
     key_size |-> key_size]

\* iv_size in AESGCMAlgorithm.wrap
iv_size == 96

\* AESGCMAlgorithm_wrap with a constant IV in place of the value drawn
AESGCMAlgorithm_wrap_fixed_iv(self, cek, headers, key, iv) ==
    LET op_key == get_op_key(key, "wrapKey")
        chk == check_key(self, op_key)
        iv0 == Raw(iv_size \div 8, 0)
    IN  IF chk # None THEN [out |-> chk, trace |-> <<>>]
        ELSE LET ek == gcm_ciphertext(op_key, iv0, cek)
                 h == [iv |-> to_native(urlsafe_b64encode(iv0)),
                       tag |-> to_native(urlsafe_b64encode(gcm_tag(op_key, iv0, cek)))]
             IN  [out |-> Return([t |-> "dict", ek |-> ek, header |-> h]),
                  trace |-> <<"urandom", "gcm_encrypt">>]

\* iv is the value os.urandom(iv_size // 8) returned to this call
AESGCMAlgorithm_wrap(self, cek, headers, key, iv) ==
    LET op_key == get_op_key(key, "wrapKey")
        chk == check_key(self, op_key)
    IN  IF chk # None THEN [out |-> chk, trace |-> <<>>]
        ELSE LET ek == gcm_ciphertext(op_key, iv, cek)
                 h == [iv |-> to_native(urlsafe_b64encode(iv)),
                       tag |-> to_native(urlsafe_b64encode(gcm_tag(op_key, iv, cek)))]
             IN  [out |-> Return([t |-> "dict", ek |-> ek, header |-> h]),
                  trace |-> <<"urandom", "gcm_encrypt">>]

\* AESGCMAlgorithm_unwrap handing the iv text to GCM without decoding it
AESGCMAlgorithm_unwrap_undecoded(self, ek, headers, key) ==
    LET op_key == get_op_key(key, "unwrapKey")
        chk == check_key(self, op_key)
        iv == Get(headers, "iv")
        tag == Get(headers, "tag")
    IN  IF chk # None THEN [out |-> chk, trace |-> <<>>]
        ELSE IF ~Truthy(iv)
        THEN [out |-> Raise("ValueError", "Missing \"iv\" in headers"), trace |-> <<>>]
        ELSE IF ~Truthy(tag)
        THEN [out |-> Raise("ValueError", "Missing \"tag\" in headers"), trace |-> <<>>]
        ELSE LET iv_b == to_bytes(iv)
                 tag_b == urlsafe_b64decode(to_bytes(tag))
                 cek == gcm_update(op_key, iv_b, ek)
             IN  IF gcm_finalize(op_key, iv_b, tag_b, ek)
                 THEN [out |-> Return(cek), trace |-> <<"gcm_decrypt", "gcm_finalize">>]
                 ELSE [out |-> Raise("InvalidTag", ""),
                       trace |-> <<"gcm_decrypt", "gcm_finalize">>]

\* AESGCMAlgorithm_unwrap looking for tag before iv
AESGCMAlgorithm_unwrap_tag_first(self, ek, headers, key) ==
    LET op_key == get_op_key(key, "unwrapKey")
        chk == check_key(self, op_key)
        iv == Get(headers, "iv")
        tag == Get(headers, "tag")
    IN  IF chk # None THEN [out |-> chk, trace |-> <<>>]
        ELSE IF ~Truthy(tag)
        THEN [out |-> Raise("ValueError", "Missing \"tag\" in headers"), trace |-> <<>>]
        ELSE IF ~Truthy(iv)
        THEN [out |-> Raise("ValueError", "Missing \"iv\" in headers"), trace |-> <<>>]
        ELSE LET iv_b == urlsafe_b64decode(to_bytes(iv))
                 tag_b == urlsafe_b64decode(to_bytes(tag))
                 cek == gcm_update(op_key, iv_b, ek)
             IN  IF gcm_finalize(op_key, iv_b, tag_b, ek)
                 THEN [out |-> Return(cek), trace |-> <<"gcm_decrypt", "gcm_finalize">>]
                 ELSE [out |-> Raise("InvalidTag", ""),
                       trace |-> <<"gcm_decrypt", "gcm_finalize">>]

\* AESGCMAlgorithm_unwrap returning d.update(ek) without calling d.finalize()
AESGCMAlgorithm_unwrap_unverified(self, ek, headers, key) ==
    LET op_key == get_op_key(key, "unwrapKey")
        chk == check_key(self, op_key)
        iv == Get(headers, "iv")
        tag == Get(headers, "tag")
    IN  IF chk # None THEN [out |-> chk, trace |-> <<>>]
        ELSE IF ~Truthy(iv)
        THEN [out |-> Raise("ValueError", "Missing \"iv\" in headers"), trace |-> <<>>]
        ELSE IF ~Truthy(tag)
        THEN [out |-> Raise("ValueError", "Missing \"tag\" in headers"), trace |-> <<>>]
        ELSE LET iv_b == urlsafe_b64decode(to_bytes(iv))
             IN  [out |-> Return(gcm_update(op_key, iv_b, ek)),
                  trace |-> <<"gcm_decrypt">>]

AESGCMAlgorithm_unwrap(self, ek, headers, key) ==
    LET op_key == get_op_key(key, "unwrapKey")
        chk == check_key(self, op_key)
        iv == Get(headers, "iv")
        tag == Get(headers, "tag")
    IN  IF chk # None THEN [out |-> chk, trace |-> <<>>]
        ELSE IF ~Truthy(iv)
        THEN [out |-> Raise("ValueError", "Missing \"iv\" in headers"), trace |-> <<>>]
        ELSE IF ~Truthy(tag)
        THEN [out |-> Raise("ValueError", "Missing \"tag\" in headers"), trace |-> <<>>]
        ELSE LET iv_b == urlsafe_b64decode(to_bytes(iv))
                 tag_b == urlsafe_b64decode(to_bytes(tag))
                 cek == gcm_update(op_key, iv_b, ek)
             IN  IF gcm_finalize(op_key, iv_b, tag_b, ek)
                 THEN [out |-> Return(cek), trace |-> <<"gcm_decrypt", "gcm_finalize">>]
                 ELSE [out |-> Raise("InvalidTag", ""),
                       trace |-> <<"gcm_decrypt", "gcm_finalize">>]

----------------------------------------------------------------------------
(* class ECDHAlgorithm: declared, never instantiated *)

\* ECDHAlgorithm(): key_size is None
ECDHAlgorithm_default ==
    [cls |-> "ECDHAlgorithm", name |-> "ECDH-ES", description |-> None,
     key_size |-> None]

\* ECDHAlgorithm(key_size) with a key size given
ECDHAlgorithm(key_size) ==
    [cls |-> "ECDHAlgorithm", name |-> "ECDH-ES+A" \o ToString(key_size) \o "KW",
     description |-> None, key_size |-> key_size]

\* wrap and unwrap of ECDHAlgorithm: pass
ECDHAlgorithm_wrap(self, cek, headers, key) == [out |-> Return(None), trace |-> <<>>]

ECDHAlgorithm_unwrap(self, ek, headers, key) == [out |-> Return(None), trace |-> <<>>]

----------------------------------------------------------------------------
(* The algorithm list and the registry built from it *)

JWE_ALG_ALGORITHMS ==
    << RSAAlgorithm("RSA1_5", "RSAES-PKCS1-v1_5", "PKCS1v15"),
       RSAAlgorithm("RSA-OAEP", "RSAES OAEP using default parameters", "OAEP-SHA1"),
       RSAAlgorithm("RSA-OAEP-256", "RSAES OAEP using SHA-256 and MGF1 with SHA-256",
                    "OAEP-SHA256"),
       AESAlgorithm(128),
       AESAlgorithm(192),
       AESAlgorithm(256),
       AESGCMAlgorithm(128),
       AESGCMAlgorithm(192),
       AESGCMAlgorithm(256) >>

\* the registry: every algorithm of the list under its own name
Registry ==
    [n \in {JWE_ALG_ALGORITHMS[i].name : i \in DOMAIN JWE_ALG_ALGORITHMS} |->
        JWE_ALG_ALGORITHMS[CHOOSE i \in DOMAIN JWE_ALG_ALGORITHMS :
                              JWE_ALG_ALGORITHMS[i].name = n]]

\* resolve(name): the registered instance, or the unknown-algorithm error
resolve(reg, name) ==
    IF name \in DOMAIN reg THEN Return(reg[name])
    ELSE Raise("UnknownAlgorithm", name)

\* method dispatch on the class of the instance
wrap(self, cek, headers, key, iv) ==
    CASE self.cls = "RSAAlgorithm" -> RSAAlgorithm_wrap(self, cek, headers, key)
      [] self.cls = "AESAlgorithm" -> AESAlgorithm_wrap(self, cek, headers, key)
      [] self.cls = "AESGCMAlgorithm" -> AESGCMAlgorithm_wrap(self, cek, headers, key, iv)
      [] OTHER -> ECDHAlgorithm_wrap(self, cek, headers, key)

unwrap(self, ek, headers, key) ==
    CASE self.cls = "RSAAlgorithm" -> RSAAlgorithm_unwrap(self, ek, headers, key)
      [] self.cls = "AESAlgorithm" -> AESAlgorithm_unwrap(self, ek, headers, key)
      [] self.cls = "AESGCMAlgorithm" -> AESGCMAlgorithm_unwrap(self, ek, headers, key)
      [] OTHER -> ECDHAlgorithm_unwrap(self, ek, headers, key)

----------------------------------------------------------------------------
(* Inputs *)

\* modulus sizes of the RSA keys presented, in bits
RSAKeyBits == {1024, 2048, 4096}

\* lengths of the octet keys presented, in bytes
OctKeyLens == {15, 16, 24, 32}

\* lengths of the CEKs presented, in bytes
CekLens == {16, 20, 32, 64}

RSAKeys == {RSAKey(b) : b \in RSAKeyBits}

OctKeys == {OctKey(n) : n \in OctKeyLens}

CEKs == {Raw(n, 1) : n \in CekLens}

\* the keys prepare_key of the algorithm can return
KeysFor(alg) == IF alg.cls = "RSAAlgorithm" THEN RSAKeys ELSE OctKeys

\* names a caller may ask the registry for
AskedNames ==
    DOMAIN Registry \cup
    {ECDHAlgorithm_default.name, ECDHAlgorithm(128).name, ECDHAlgorithm(192).name,
     ECDHAlgorithm(256).name, "dir", "A512KW"}

\* what a caller makes of the value wrap returned: the wrapped key ...
WrappedKey(val) == IF val.t = "dict" THEN val.ek ELSE val

\* ... and the header fields to merge into the protected header
HeaderAdditions(val) == IF val.t = "dict" THEN val.header ELSE NoHeaders

\* bytes that no wrap produced
Junk == Raw(24, 0)

\* the mapping with the entries iv and tag, an entry left out when None
MkHeaders(iv, tag) ==
    [k \in {x \in {"iv", "tag"} : (IF x = "iv" THEN iv ELSE tag) # None} |->
        IF k = "iv" THEN iv ELSE tag]

\* the ek values handed to unwrap: what the last wrap produced, as sent or
\* with a bit flipped
EkInputs ==
    IF sent = None THEN {Junk}
    ELSE {WrappedKey(sent.val), Flip(WrappedKey(sent.val))}

\* the header values handed to unwrap: absent, '', the value the last wrap
\* produced, and (tag) that value with a bit flipped
IvInputs ==
    {None, EmptyStr} \cup
    (IF sent # None /\ sent.val.t = "dict"
     THEN {sent.val.header.iv}
     ELSE {to_native(urlsafe_b64encode(Raw(iv_size \div 8, 0)))})

TagInputs ==
    {None, EmptyStr} \cup
    (IF sent # None /\ sent.val.t = "dict"
     THEN {sent.val.header.tag,
           to_native(urlsafe_b64encode(Flip(urlsafe_b64decode(to_bytes(sent.val.header.tag)))))}
     ELSE {to_native(urlsafe_b64encode(Raw(16, 0)))})

HeaderInputs(alg) ==
    IF alg.cls = "AESGCMAlgorithm"
    THEN {MkHeaders(iv, tag) : iv \in IvInputs, tag \in TagInputs}
    ELSE {NoHeaders, MkHeaders(EmptyStr, None)}

----------------------------------------------------------------------------------------------------------------------------------------------------------------------------------------------------
(* Key documents and the key codec (jwk.loads / jwk.dumps) *)

\* big-endian bytes of a non-negative integer, no leading zero byte
RECURSIVE int_to_bytes(_)
int_to_bytes(n) ==
    IF n < 256 THEN <<n>> ELSE Append(int_to_bytes(n \div 256), n % 256)

\* the integer a big-endian byte sequence stands for
RECURSIVE bytes_to_int(_)
bytes_to_int(b) ==
    IF Len(b) = 0 THEN 0
    ELSE bytes_to_int(SubSeq(b, 1, Len(b) - 1)) * 256 + b[Len(b)]

\* authlib.common.encoding.int_to_base64 / base64_to_int
int_to_base64(n) == to_native(urlsafe_b64encode(int_to_bytes(n)))

base64_to_int(s) == bytes_to_int(urlsafe_b64decode(to_bytes(s)))

\* the fields of a document that hold integers, per key family
IntFields(kty) ==
    CASE kty = "RSA" -> {"n", "e", "d", "p", "q", "dp", "dq", "qi"}
      [] kty = "EC" -> {"x", "y", "d"}
      [] OTHER -> {}

\* the fields that hold raw bytes
BytesFields(kty) ==
    CASE kty = "OKP" -> {"x", "d"}
      [] kty = "oct" -> {"k"}
      [] OTHER -> {}

\* the fields that hold a name
NameFields(kty) == IF kty \in {"EC", "OKP"} THEN {"crv"} ELSE {}

\* the public fields a document of the family must hold
RequiredFields(kty) ==
    CASE kty = "RSA" -> {"n", "e"}
      [] kty = "EC" -> {"crv", "x", "y"}
      [] kty = "OKP" -> {"crv", "x"}
      [] OTHER -> {"k"}

KeyTypes == {"RSA", "EC", "OKP", "oct"}

\* the in-memory value of one field of a document
field_value(kty, f, v) ==
    IF f \in IntFields(kty) THEN base64_to_int(v)
    ELSE IF f \in BytesFields(kty) THEN urlsafe_b64decode(to_bytes(v))
    ELSE v

\* its value in a dumped document
field_text(kty, f, x) ==
    IF f \in IntFields(kty) THEN int_to_base64(x)
    ELSE IF f \in BytesFields(kty) THEN to_native(urlsafe_b64encode(x))
    ELSE x

\* rsa_recover_prime_factors(n, e, d): the primes of n, the larger first
rsa_recover_prime_factors(n, e, d) ==
    LET q == CHOOSE x \in 2..n : n % x = 0
    IN  <<n \div q, q>>

\* rsa_crt_dmp1(d, p), rsa_crt_dmq1(d, q)
rsa_crt_dmp1(d, p) == d % (p - 1)

\* rsa_crt_iqmp(p, q): the inverse of q modulo p
rsa_crt_iqmp(p, q) == CHOOSE x \in 1..(p - 1) : (x * q) % p = 1

\* loads_private_key that asks for the primes: a document without p and q is rejected
loads_private_key_strict(obj) ==
    LET has(f) == f \in DOMAIN obj
        num(f) == base64_to_int(obj[f])
    IN  IF ~(has("p") /\ has("q"))
        THEN Raise("ValueError", "RSA key must include all parameters if any are present besides d")
        ELSE Return([n |-> num("n"), e |-> num("e"), d |-> num("d"),
                     p |-> num("p"), q |-> num("q"),
                     dp |-> num("dp"), dq |-> num("dq"), qi |-> num("qi")])

\* loads_private_key that always recovers the primes, the larger first,
\* whatever p and q the document gives
loads_private_key_recover(obj) ==
    LET has(f) == f \in DOMAIN obj
        num(f) == base64_to_int(obj[f])
    IN  IF has("p") # has("q")
        THEN Raise("ValueError", "RSA key must include all parameters if any are present besides d")
        ELSE LET pq == rsa_recover_prime_factors(num("n"), num("e"), num("d"))
                 d == num("d")
             IN  Return([n |-> num("n"), e |-> num("e"), d |-> d, p |-> pq[1], q |-> pq[2],
                         dp |-> rsa_crt_dmp1(d, pq[1]),
                         dq |-> rsa_crt_dmp1(d, pq[2]),
                         qi |-> rsa_crt_iqmp(pq[1], pq[2])])

\* loading the private numbers of an RSA document obj that holds d: with p
\* and q the document gives every number; with neither, the primes are
\* recovered from n, e, d and dp, dq, qi derived from them; with only one of
\* p, q the document is rejected
loads_private_key(obj) ==
    LET has(f) == f \in DOMAIN obj
        num(f) == base64_to_int(obj[f])
    IN  IF has("p") # has("q")
        THEN Raise("ValueError", "RSA key must include all parameters if any are present besides d")
        ELSE LET pq == IF has("p") THEN <<num("p"), num("q")>>
                       ELSE rsa_recover_prime_factors(num("n"), num("e"), num("d"))
                 p == pq[1]
                 q == pq[2]
                 d == num("d")
             IN  Return([n |-> num("n"), e |-> num("e"), d |-> d, p |-> p, q |-> q,
                         dp |-> IF has("p") THEN num("dp") ELSE rsa_crt_dmp1(d, p),
                         dq |-> IF has("p") THEN num("dq") ELSE rsa_crt_dmp1(d, q),
                         qi |-> IF has("p") THEN num("qi") ELSE rsa_crt_iqmp(p, q)])

\* jwk.loads(obj): the key of a document, or ValueError
loads(obj) ==
    IF "kty" \notin DOMAIN obj
    THEN Raise("ValueError", "Invalid key format")
    ELSE IF obj.kty \notin KeyTypes \/ ~(RequiredFields(obj.kty) \subseteq DOMAIN obj)
    THEN Raise("ValueError", "Invalid key format")
    ELSE IF obj.kty = "RSA" /\ "d" \in DOMAIN obj
    THEN LET r == loads_private_key(obj)
         IN  IF r.t = "raise" THEN r
             ELSE Return([kty |-> "RSA", private |-> TRUE, num |-> r.val])
    ELSE Return([kty |-> obj.kty, private |-> "d" \in DOMAIN obj,
                 num |-> [f \in DOMAIN obj \ {"kty"} |-> field_value(obj.kty, f, obj[f])]])

\* jwk.dumps(key, kty) of a loaded key, kty being '' or the family of the key
dumps(key, kty) ==
    Return([f \in DOMAIN key.num \cup {"kty"} |->
               IF f = "kty" THEN key.kty ELSE field_text(key.kty, f, key.num[f])])

\* the key class whose import_key the algorithm's prepare_key calls
KeyClass(alg) ==
    CASE alg.cls = "RSAAlgorithm" -> "RSA"
      [] alg.cls = "ECDHAlgorithm" -> "EC"
      [] OTHER -> "oct"

\* alg.prepare_key(raw_data): the codec restricted to the family of the algorithm
prepare_key(self, raw_data) ==
    IF "kty" \in DOMAIN raw_data /\ raw_data.kty # KeyClass(self)
    THEN Raise("ValueError", "Invalid key format")
    ELSE loads(raw_data)

\* the text of an integer with k leading zero bytes
Padded(n, k) ==
    to_native(urlsafe_b64encode([i \in 1..k |-> 0] \o int_to_bytes(n)))

\* RSA keys of toy size: primes p, q, exponents e, d with e * d = 1 mod lcm(p-1, q-1)
ToyRSA == { [p |-> 19, q |-> 17, e |-> 5, d |-> 29],
            [p |-> 11, q |-> 23, e |-> 3, d |-> 37] }

\* RSA documents of a toy key, integers written with k leading zero bytes:
\* public, private with every field, private with n, e, d only, private with
\* p but not q
RSADocs(k) ==
    UNION { LET n == r.p * r.q
                pub == [kty |-> "RSA", n |-> Padded(n, k), e |-> Padded(r.e, k)]
                ned == [kty |-> "RSA", n |-> Padded(n, k), e |-> Padded(r.e, k),
                        d |-> Padded(r.d, k)]
            IN  { pub, ned,
                  [kty |-> "RSA", n |-> Padded(n, k), e |-> Padded(r.e, k),
                   d |-> Padded(r.d, k), p |-> Padded(r.p, k)],
                  [kty |-> "RSA", n |-> Padded(n, k), e |-> Padded(r.e, k),
                   d |-> Padded(r.d, k), p |-> Padded(r.p, k), q |-> Padded(r.q, k),
                   dp |-> Padded(rsa_crt_dmp1(r.d, r.p), k),
                   dq |-> Padded(rsa_crt_dmp1(r.d, r.q), k),
                   qi |-> Padded(rsa_crt_iqmp(r.p, r.q), k)] }
          : r \in ToyRSA }

\* coordinates and private scalars of the toy EC and OKP keys
ToyPoints == { [x |-> 7, y |-> 300, d |-> 5], [x |-> 258, y |-> 9, d |-> 77] }

ECDocs(k) ==
    UNION { { [kty |-> "EC", crv |-> c, x |-> Padded(t.x, k), y |-> Padded(t.y, k)],
              [kty |-> "EC", crv |-> c, x |-> Padded(t.x, k), y |-> Padded(t.y, k),
               d |-> Padded(t.d, k)] }
          : c \in {"P-256", "P-521"}, t \in ToyPoints }

OKPDocs ==
    UNION { { [kty |-> "OKP", crv |-> "Ed25519",
               x |-> to_native(urlsafe_b64encode(xb))],
              [kty |-> "OKP", crv |-> "Ed25519",
               x |-> to_native(urlsafe_b64encode(xb)),
               d |-> to_native(urlsafe_b64encode(<<9, 0, 8>>))] }
          : xb \in {<<0, 63, 158>>, <<215, 90, 0>>} }

OctDocs ==
    { [kty |-> "oct", k |-> to_native(urlsafe_b64encode(kb))]
      : kb \in {<<132, 155>>, <<0, 0, 1>>, <<1>>} }

\* documents that hold no key
BadDocs ==
    { [kty |-> "RSA"], [kty |-> "EC"], [kty |-> "EC", crv |-> "P-256"],
      [kty |-> "OKP"], [kty |-> "oct"], [kty |-> "none"], NoHeaders }

\* largest number of leading zero bytes an integer of a document is written with
MaxPad == 1

Docs ==
    UNION {RSADocs(k) \cup ECDocs(k) : k \in 0..MaxPad}
    \cup OKPDocs \cup OctDocs \cup BadDocs

----------------
(* State machine *)

\* registry  the registry of algorithms
\* ctx       the algorithm name, key and CEK the sender of this run uses
\* sent      the last successful wrap: its inputs and the value returned
\* prevSent  the successful wrap before that one
\* last      the last call: its inputs, what it returned or raised, and the
\*           primitive operations it performed
\* jwk       the key document being loaded and dumped

NoCall ==
    [op |-> "none", name |-> "", key |-> None, cek |-> None, ek |-> None,
     headers |-> NoHeaders, draw |-> None, out |-> None, trace |-> <<>>]

NoJwk == [doc |-> None, key |-> None, dumped |-> None]

Init ==
    /\ registry = Registry
    /\ \E name \in DOMAIN Registry :
         \E key \in KeysFor(Registry[name]), cek \in CEKs :
            ctx = [name |-> name, key |-> key, cek |-> cek]
    /\ sent = None
    /\ prevSent = None
    /\ last = NoCall
    /\ jwk = NoJwk

\* the values the random source may hand to one wrap call of the algorithm
Draws(alg) ==
    IF alg.cls = "AESGCMAlgorithm" THEN os_urandom(iv_size \div 8) ELSE {None}

\* alg.wrap(cek, {}, key) by the sender
Wrap ==
    \E iv \in Draws(registry[ctx.name]) :
        LET alg == registry[ctx.name]
            r == wrap(alg, ctx.cek, NoHeaders, ctx.key, iv)
            drawn == IF "urandom" \in {r.trace[i] : i \in DOMAIN r.trace} THEN iv ELSE None
        IN  /\ last' = [op |-> "wrap", name |-> ctx.name, key |-> ctx.key,
                        cek |-> ctx.cek, ek |-> None, headers |-> NoHeaders,
                        draw |-> drawn, out |-> r.out, trace |-> r.trace]
            /\ IF r.out.t = "return"
               THEN /\ sent' = [name |-> ctx.name, key |-> ctx.key, cek |-> ctx.cek,
                                draw |-> drawn, val |-> r.out.val]
                    /\ prevSent' = sent
               ELSE UNCHANGED <<sent, prevSent>>
            /\ UNCHANGED <<registry, ctx, jwk>>

\* alg.unwrap(ek, headers, key) by a receiver, with any key of the family
Unwrap ==
    \E key \in KeysFor(registry[ctx.name]), ek \in EkInputs,
       headers \in HeaderInputs(registry[ctx.name]) :
        LET alg == registry[ctx.name]
            r == unwrap(alg, ek, headers, key)
        IN  /\ last' = [op |-> "unwrap", name |-> ctx.name, key |-> key, cek |-> None,
                        ek |-> ek, headers |-> headers, draw |-> None,
                        out |-> r.out, trace |-> r.trace]
            /\ UNCHANGED <<registry, ctx, sent, prevSent, jwk>>

\* resolve(name)
Resolve ==
    \E name \in AskedNames :
        /\ last' = [NoCall EXCEPT !.op = "resolve", !.name = name,
                                  !.out = resolve(registry, name)]
        /\ UNCHANGED <<registry, ctx, sent, prevSent, jwk>>

\* the raw key data handed to prepare_key
PrepareInputs == RSADocs(0) \cup OctDocs \cup BadDocs

\* alg.prepare_key(raw_data)
PrepareKey ==
    \E raw_data \in PrepareInputs :
        /\ last' = [NoCall EXCEPT !.op = "prepare_key", !.name = ctx.name,
                                  !.key = raw_data,
                                  !.out = prepare_key(registry[ctx.name], raw_data)]
        /\ UNCHANGED <<registry, ctx, sent, prevSent, jwk>>

Next == Wrap \/ Unwrap \/ Resolve \/ PrepareKey

Spec == Init /\ [][Next]_vars

----------------------------------------------------------------------------
(* State machine of the key codec *)

InitJWK ==
    /\ registry = Registry
    /\ ctx = [name |-> "", key |-> None, cek |-> None]
    /\ sent = None
    /\ prevSent = None
    /\ last = NoCall
    /\ \E doc \in Docs : jwk = [doc |-> doc, key |-> None, dumped |-> None]

\* key = jwk.loads(doc)
Load ==
    /\ jwk.key = None
    /\ jwk' = [jwk EXCEPT !.key = loads(jwk.doc)]
    /\ UNCHANGED <<registry, ctx, sent, prevSent, last>>

\* jwk.dumps(key) or jwk.dumps(key, kty) of the key loaded
Dump ==
    /\ jwk.key.t = "return"
    /\ jwk.dumped = None
    /\ \E kty \in {"", jwk.key.val.kty} :
          jwk' = [jwk EXCEPT !.dumped = dumps(jwk.key.val, kty)]
    /\ UNCHANGED <<registry, ctx, sent, prevSent, last>>

NextJWK == Load \/ Dump

SpecJWK == InitJWK /\ [][NextJWK]_vars

----------------------------------------------------------------------------
(* Properties of the key-wrap algorithms, checked under Spec *)

\* the algorithm instance of the last wrap or unwrap call
LastAlg == registry[last.name]

IsAES(alg) == alg.cls \in {"AESAlgorithm", "AESGCMAlgorithm"}

\* the key has the size the algorithm asks for
KeyFits(alg, key) ==
    IF alg.cls = "RSAAlgorithm" THEN key.key_size >= 2048
    ELSE key.k.len * 8 = alg.key_size

\* RFC 3394 wraps whole 64-bit blocks, at least two of them
CekFits(alg, cek) ==
    alg.cls = "AESAlgorithm" => (cek.len >= 16 /\ cek.len % 8 = 0)

\* the last call is unwrap of exactly what the last wrap returned, under its key
RoundTripCase ==
    /\ last.op = "unwrap"
    /\ sent # None
    /\ last.key = sent.key
    /\ last.ek = WrappedKey(sent.val)
    /\ last.headers = HeaderAdditions(sent.val)

\* C1 as stated: with a key of the right family and size wrap succeeds for
\* every CEK, and unwrap of what it returned gives back the CEK.
C1_IdentityForEveryCek ==
    /\ (last.op = "wrap" /\ KeyFits(LastAlg, last.key)) => last.out.t = "return"
    /\ RoundTripCase => last.out = Return(sent.cek)

\* C1 amended: with a key of the right family and size, and for the AES-KW
\* variants a CEK of a whole number of 64-bit blocks (16 bytes or more), wrap
\* succeeds, and unwrap of the wrapped key and header additions it returned,
\* under the same key, returns exactly the CEK.
C1_WrapUnwrapIdentity ==
    /\ (last.op = "wrap" /\ KeyFits(LastAlg, last.key) /\ CekFits(LastAlg, last.cek))
          => last.out.t = "return"
    /\ RoundTripCase => last.out = Return(sent.cek)

C1_Witness ==
    /\ RoundTripCase
    /\ LastAlg.cls = "AESGCMAlgorithm"
    /\ last.out = Return(ctx.cek)

\* C2: wrap and unwrap of an AES-KW or AES-GCM-KW algorithm with an octet key
\* whose bit length is not key_size raise the key-size error, having performed
\* no primitive operation and drawn no random value, whatever the headers hold.
C2_KeySizeMismatch ==
    (/\ last.op \in {"wrap", "unwrap"}
     /\ IsAES(LastAlg)
     /\ last.key.k.len * 8 # LastAlg.key_size)
    => /\ last.out.t = "raise"
       /\ last.out.exc = "ValueError"
       /\ last.out.msg = "A key of size " \o ToString(LastAlg.key_size) \o " bits is required."
       /\ last.trace = <<>>

C2_Witness ==
    /\ last.op = "unwrap"
    /\ last.name = "A128GCMKW"
    /\ last.key.k.len = 15
    /\ DOMAIN last.headers = {"iv", "tag"}
    /\ last.headers["iv"] # EmptyStr
    /\ last.headers["tag"] # EmptyStr
    /\ last.out.t = "raise"

\* C3: wrap of RSA1_5, RSA-OAEP and RSA-OAEP-256 raises the key-too-small
\* error, without encrypting, when the modulus has fewer than 2048 bits, and
\* returns a wrapped key when it has 2048 bits or more; the three variants
\* share the floor.
C3_RSAMinimumKeySize ==
    /\ \A n \in {"RSA1_5", "RSA-OAEP", "RSA-OAEP-256"} : registry[n].key_size = 2048
    /\ (last.op = "wrap" /\ LastAlg.cls = "RSAAlgorithm")
       => IF last.key.key_size < 2048
          THEN /\ last.out = Raise("ValueError",
                                   "A key of size 2048 bits or larger MUST be used")
               /\ last.trace = <<>>
          ELSE last.out.t = "return"

C3_Witness ==
    /\ last.op = "wrap"
    /\ last.name = "RSA-OAEP-256"
    /\ last.key.key_size = 1024
    /\ last.out.t = "raise"

\* unwrap of an AES-GCM-KW algorithm with a key of the right size
GcmUnwrapCase ==
    /\ last.op = "unwrap"
    /\ LastAlg.cls = "AESGCMAlgorithm"
    /\ last.key.k.len * 8 = LastAlg.key_size

Lacks(f) == f \notin DOMAIN last.headers

LacksOrEmpty(f) == Lacks(f) \/ last.headers[f] = EmptyStr

MissingIv == "Missing \"iv\" in headers"

MissingTag == "Missing \"tag\" in headers"

\* C4 as stated: when the headers lack iv or lack tag, unwrap raises the
\* missing-field error naming a field the mapping lacks, and decrypts nothing.
C4_NamesAFieldThatIsMissing ==
    (GcmUnwrapCase /\ (Lacks("iv") \/ Lacks("tag")))
    => /\ last.out.t = "raise"
       /\ last.out.exc = "ValueError"
       /\ last.out.msg \in {MissingIv, MissingTag}
       /\ last.out.msg = MissingIv => Lacks("iv")
       /\ last.out.msg = MissingTag => Lacks("tag")
       /\ last.trace = <<>>

\* C4 amended: when iv or tag is missing from the headers or is the empty
\* string, unwrap raises the missing-field error, naming iv when iv is missing
\* or empty and tag otherwise; nothing is decrypted and no CEK is returned.
C4_MissingHeader ==
    (GcmUnwrapCase /\ (LacksOrEmpty("iv") \/ LacksOrEmpty("tag")))
    => /\ last.out = Raise("ValueError",
                           IF LacksOrEmpty("iv") THEN MissingIv ELSE MissingTag)
       /\ last.trace = <<>>

C4_Witness ==
    /\ GcmUnwrapCase
    /\ DOMAIN last.headers = {"iv"}
    /\ last.headers["iv"] = EmptyStr
    /\ last.out = Raise("ValueError", MissingIv)

\* the number of times the primitive operation x occurs in a trace
Occurrences(trace, x) == Cardinality({i \in DOMAIN trace : trace[i] = x})

\* the last two successful wraps are AES-GCM-KW wraps (of the same key and CEK)
GcmPair ==
    /\ sent # None
    /\ prevSent # None
    /\ sent.val.t = "dict"
    /\ prevSent.val.t = "dict"
    /\ sent.key = prevSent.key
    /\ sent.cek = prevSent.cek

\* C5 as stated: no two wrap calls with the same key return the same iv, and
\* two successive calls with the same key and CEK return different ek.
C5_NoTwoCallsShareAnIv ==
    GcmPair => /\ sent.val.header.iv # prevSent.val.header.iv
               /\ sent.val.ek # prevSent.val.ek

\* C5 amended: every successful wrap of an AES-GCM-KW algorithm draws exactly
\* one 96-bit value from the random source, returns its base64url text as iv
\* and encrypts under it; two calls with the same key and CEK return the same
\* iv or the same ek only if the random source gave both the same value.
C5_FreshDrawPerCall ==
    /\ (last.op = "wrap" /\ LastAlg.cls = "AESGCMAlgorithm" /\ last.out.t = "return")
       => /\ Occurrences(last.trace, "urandom") = 1
          /\ last.draw.len * 8 = 96
          /\ last.out.val.header.iv = to_native(urlsafe_b64encode(last.draw))
          /\ last.out.val.ek.iv = last.draw
    /\ (GcmPair /\ sent.draw # prevSent.draw)
       => /\ sent.val.header.iv # prevSent.val.header.iv
          /\ sent.val.ek # prevSent.val.ek

C5_Witness ==
    /\ GcmPair
    /\ sent.draw # prevSent.draw
    /\ sent.val.header.iv # prevSent.val.header.iv

\* a str holding base64url text
IsBase64Str(v) == v.t = "str" /\ v.text.t = "b64"

\* C6 as stated: every successful wrap returns a wrapped key together with a
\* mapping of header additions, empty for the RSA and AES-KW variants and
\* exactly iv and tag, base64url-encoded, for the AES-GCM-KW variants.
C6_EveryWrapReturnsEkAndHeaders ==
    (last.op = "wrap" /\ last.out.t = "return")
    => /\ last.out.val.t = "dict"
       /\ {"ek", "header"} \subseteq DOMAIN last.out.val
       /\ IF LastAlg.cls = "AESGCMAlgorithm"
          THEN /\ DOMAIN last.out.val.header = {"iv", "tag"}
               /\ IsBase64Str(last.out.val.header.iv)
               /\ IsBase64Str(last.out.val.header.tag)
          ELSE last.out.val.header = NoHeaders

\* C6 amended: a successful wrap of an RSA or AES-KW variant returns the
\* wrapped key alone, as bytes, with no mapping of header additions; a
\* successful wrap of an AES-GCM-KW variant returns a mapping of ek and header,
\* header holding exactly iv and tag, both base64url-encoded.
C6_WrapResult ==
    (last.op = "wrap" /\ last.out.t = "return")
    => CASE LastAlg.cls = "RSAAlgorithm" -> last.out.val.t = "rsa_ct"
         [] LastAlg.cls = "AESAlgorithm" -> last.out.val.t = "kw"
         [] OTHER ->
              /\ last.out.val.t = "dict"
              /\ DOMAIN last.out.val = {"t", "ek", "header"}
              /\ last.out.val.ek.t = "gcm_ct"
              /\ DOMAIN last.out.val.header = {"iv", "tag"}
              /\ IsBase64Str(last.out.val.header.iv)
              /\ IsBase64Str(last.out.val.header.tag)

C6_Witness ==
    /\ last.op = "wrap"
    /\ last.name = "A256KW"
    /\ last.out.t = "return"
    /\ last.out.val.t = "kw"

\* unwrap, under the key of the last wrap, of an ek (or, AES-GCM-KW, a tag)
\* that is not the one that wrap produced
TamperCase ==
    /\ last.op = "unwrap"
    /\ sent # None
    /\ IsAES(LastAlg)
    /\ last.key = sent.key
    /\ IF LastAlg.cls = "AESAlgorithm"
       THEN last.ek # sent.val
       ELSE /\ DOMAIN last.headers = {"iv", "tag"}
            /\ last.headers["iv"] = sent.val.header.iv
            /\ last.headers["tag"] # EmptyStr
            /\ (last.ek # sent.val.ek \/ last.headers["tag"] # sent.val.header.tag)

NineNames ==
    {"RSA1_5", "RSA-OAEP", "RSA-OAEP-256", "A128KW", "A192KW", "A256KW",
     "A128GCMKW", "A192GCMKW", "A256GCMKW"}

ReservedNames == {"ECDH-ES", "ECDH-ES+A128KW", "ECDH-ES+A192KW", "ECDH-ES+A256KW"}

\* C8 as stated: the keys of the registry are the nine names and the four
\* reserved ECDH names.
C8_RegistryHoldsReservedNames ==
    DOMAIN registry = NineNames \cup ReservedNames

\* C8 amended: at every point the keys of the registry are exactly the nine
\* names RSA1_5 .. A256GCMKW, each resolving to the instance of that name (an
\* AES instance of the key size in its name, an RSA instance of key size 2048);
\* the ECDH names are not registered, and resolving them or any other name
\* fails with the unknown-algorithm error; no call changes an entry.
C8_RegistryContents ==
    /\ DOMAIN registry = NineNames
    /\ registry = Registry
    /\ \A n \in NineNames :
         /\ registry[n].name = n
         /\ registry[n].cls = "AESAlgorithm" => n = "A" \o ToString(registry[n].key_size) \o "KW"
         /\ registry[n].cls = "AESGCMAlgorithm"
               => n = "A" \o ToString(registry[n].key_size) \o "GCMKW"
         /\ registry[n].cls = "RSAAlgorithm" => registry[n].key_size = 2048
         /\ registry[n].cls \in {"RSAAlgorithm", "AESAlgorithm", "AESGCMAlgorithm"}
    /\ last.op = "resolve"
       => IF last.name \in NineNames
          THEN last.out.t = "return" /\ last.out.val.name = last.name
          ELSE last.out = Raise("UnknownAlgorithm", last.name)

C8_Witness ==
    /\ last.op = "resolve"
    /\ last.name = "ECDH-ES+A128KW"
    /\ last.out.t = "raise"

----------------------------------------------------------------------------
(* Properties of the key codec, checked under SpecJWK *)

\* the document loaded is an RSA document holding n, e and d
RSAPrivateDoc ==
    /\ "kty" \in DOMAIN jwk.doc
    /\ jwk.doc.kty = "RSA"
    /\ {"n", "e", "d"} \subseteq DOMAIN jwk.doc

HasField(f) == f \in DOMAIN jwk.doc

\* C9 as stated: loading an RSA document that holds n, e and d but neither p
\* nor q fails and yields no key.
C9_LoadWithoutPrimesFails ==
    (RSAPrivateDoc /\ ~HasField("p") /\ ~HasField("q") /\ jwk.key # None)
    => jwk.key.t = "raise"

\* C9 amended: loading an RSA document that holds n, e and d and none of p, q,
\* dp, dq, qi succeeds: the loader recovers the primes from n, e, d and derives
\* dp, dq, qi, and the dumped document holds all eight fields; a document that
\* holds d and only one of p, q is rejected with an error and yields no key.
C9_PrimesRecovered ==
    (RSAPrivateDoc /\ jwk.key # None)
    => /\ (~HasField("p") /\ ~HasField("q"))
          => /\ jwk.key.t = "return"
             /\ jwk.key.val.private
             /\ LET k == jwk.key.val.num
                IN  /\ k.n = base64_to_int(jwk.doc.n)
                    /\ k.d = base64_to_int(jwk.doc.d)
                    /\ k.p > 1 /\ k.q > 1 /\ k.p * k.q = k.n
                    /\ k.dp = k.d % (k.p - 1)
                    /\ k.dq = k.d % (k.q - 1)
                    /\ (k.qi * k.q) % k.p = 1
             /\ jwk.dumped # None
                => {"n", "e", "d", "p", "q", "dp", "dq", "qi"} \subseteq DOMAIN jwk.dumped.val
       /\ (HasField("p") # HasField("q"))
          => jwk.key.t = "raise" /\ jwk.key.exc = "ValueError" /\ jwk.dumped = None

C9_Witness ==
    /\ RSAPrivateDoc
    /\ DOMAIN jwk.doc = {"kty", "n", "e", "d"}
    /\ jwk.dumped # None
    /\ base64_to_int(jwk.dumped.val.p) = 23
    /\ base64_to_int(jwk.dumped.val.q) = 11

\* the key-material fields of a document
MaterialFields == {"n", "e", "d", "p", "q", "dp", "dq", "qi", "crv", "x", "y", "k"}

\* two field texts hold the same value: integers by value, bytes and names exactly
SameValue(kty, f, a, b) ==
    IF f \in IntFields(kty) THEN base64_to_int(a) = base64_to_int(b) ELSE a = b

\* C10: the document dumped from the key a document loaded into holds every
\* key-material field of the document loaded, with the same value (integers
\* compared by value, not by encoding): no field is dropped or changed.
C10_RoundTrip ==
    jwk.dumped # None
    => /\ jwk.dumped.t = "return"
       /\ jwk.dumped.val.kty = jwk.doc.kty
       /\ \A f \in DOMAIN jwk.doc \cap MaterialFields :
             /\ f \in DOMAIN jwk.dumped.val
             /\ SameValue(jwk.doc.kty, f, jwk.doc[f], jwk.dumped.val[f])

C10_Witness ==
    /\ jwk.dumped # None
    /\ jwk.doc.kty = "EC"
    /\ "d" \in DOMAIN jwk.doc
    /\ jwk.dumped.val.x # jwk.doc.x
    /\ base64_to_int(jwk.dumped.val.x) = base64_to_int(jwk.doc.x)

====
